---- MODULE Spec2Model ----
(***************************************************************************)
(* State-machine model of the SolanaTokenSniper token-lifecycle engine:    *)
(* the sqlite token store (DatabaseService), the store-backed              *)
(* TokenMonitorService (discovery, poll sweep, correct-token designation,  *)
(* cleanup), the signal-triggered trade callback with its in-flight        *)
(* counter, and the reconnecting websocket handler.                        *)
(*                                                                         *)
(* Every async function is cut at its await points.  A store statement     *)
(* takes effect when it is issued (sqlite runs each statement atomically), *)
(* so an action is "a pending external call returns, and the code runs to  *)
(* the next external call".                                                *)
(***************************************************************************)
EXTENDS Integers, FiniteSets, Sequences, TLC

\* ------------------------------------------------------------------ bounds

\* Ticks the clock may advance; one tick is TickMs milliseconds.
MaxTicks == 1
\* Milliseconds the clock may advance between two Date.now() reads of one
\* synchronous expression, summed over the reads within one tick.
MaxClockSkew == 1
\* Concurrently running handleNewTokenFromWebsocket calls (message handlers
\* are async and not serialised).
NumDiscoveries == 2
\* Concurrently running poll sweeps (setInterval does not wait for the
\* previous async callback).
NumSweeps == 2
\* Concurrently running onTokenReceived callbacks.
NumSignals == 4
\* websocketHandler runs (connections made) the model follows.
MaxConnections == 4
\* The highest price observed in the check of the buy threshold.
MaxPrice == 7
\* The setInterval calls of startMonitoring in a run.
NumStarts == 2
\* The lines of a message text and the character runs of a line.
MaxLines == 2
MaxRuns == 2

\* ------------------------------------------------------- program constants

TOKEN_MAX_AGE_HOURS == 72
\* 60 * 60 * 1000 in cleanupOldTokens.
MS_PER_HOUR == 3600000
\* config.tx.concurrent_transactions: the cap of the configuration (the
\* configuration file is not among the sources; the model takes 2).
MAX_CONCURRENT == 2
\* priceIncrease > 200 in checkToken.
THRESHOLD_PERCENT == 200
\* The quantifier of the address pattern of extractTokenAddress.
ADDR_MIN_LEN == 32
ADDR_MAX_LEN == 44
\* The quantifier of solanaAddressRegex.
DEX_ADDR_LEN == 44

\* ----------------------------------------------------------- input domains

Addr == {"A", "B", "C"}
\* Prices a price lookup may report (integer ticks).
Prices == {1, 4}
\* What the price endpoint can answer: a request failure, a body without a
\* price (0 stands for a missing or zero price field), or a price.
PriceResponses == {-1, 0} \cup Prices
RugResults == {"passed", "notPassed", "throws"}
SwapResults == {"tx", "noTx", "throws"}
Null == [null |-> TRUE]

Discoveries == 1..NumDiscoveries
Sweeps == 1..NumSweeps
Signals == 1..NumSignals

VARIABLES
    rows,               \* the tokens table: a set of rows
    now,                \* Date.now(), in milliseconds since the start
    simulation_mode,    \* config.rug_check.simulation_mode
    dpc,                \* handleNewTokenFromWebsocket calls: where each one is
    daddr,              \*   txDetails.mint
    drug,               \*   isRugCheckPassed
    dlog,               \*   the line it last logged
    spc,                \* poll sweeps: where each one is
    stoken,             \*   the token checkToken is working on
    srest,              \*   the tokens of activeTokens still to check
    cpc,                \* setCorrectToken: where it is
    ctarget,            \*   the designated address
    csignal,            \*   the callback whose message made the call (0: none)
    ctoken,             \*   the token being sold
    crest,              \*   the tokens of activeTokens still to look at
    activeTransactions, \* the in-flight trade counter
    tpc,                \* onTokenReceived callbacks: where each one is
    tlog,               \*   what its admission check last logged
    socks,              \* the WebSocket of each websocketHandler run, oldest first
    timers,             \* pending setTimeout(websocketHandler, 5000) timers
    exited,             \* process.exit has been called
    refPrice,           \* history: the price an address was last enrolled with (0: never)
    crossingBuys,       \* history: poll buys dispatched for an address since a poll
                        \*   last saw its price at or below the threshold over refPrice
    buyFailed,          \* history: the last poll buy of an address gave no transaction
    enriched,           \* history: the name, totalSupply and marketCap of the token
                        \*   last handed to addToken for an address
    sfailed,            \* history: an operation of a token checked earlier in the
                        \*   running sweep failed
    mainpc,             \* main: where the startup function is
    dbInit,             \* DatabaseService: whether initialize has opened the store
    cleanupScheduled,   \* whether startCleanupInterval has set its interval
    uninitOps,          \* history: a store operation ran on a store not opened
    monitoringInterval, \* TokenMonitorService.monitoringInterval (0: null)
    pollTimers,         \* the intervals of startMonitoring that are set
    timersMade,         \* the setInterval calls of startMonitoring so far
    monlog,             \* what the last startMonitoring or stopMonitoring did
    grug,               \* the rugcheck object handed to isTokenSafe
    gcfg,               \* config.rug_check, as isTokenSafe reads it
    gpc,                \* whether isTokenSafe has run on grug
    gsafe,              \* what isTokenSafe returned
    etext,              \* the text of a message, as lines of character runs
    epc,                \* whether the address extraction has run on it
    edex,               \*   what extractSolanaAddress returned
    eres,               \*   what extractTokenAddress returned
    mlog,               \* what handleNewMessage did with the last message
    unhandled           \* a promise was rejected with no handler attached

discVars == <<dpc, daddr, drug, dlog>>
sweepVars == <<spc, stoken, srest>>
corrVars == <<cpc, ctarget, csignal, ctoken, crest>>
tradeVars == <<activeTransactions, tpc, tlog>>
streamVars == <<socks, timers, exited>>
histVars == <<refPrice, crossingBuys, buyFailed, sfailed, enriched>>
signalVars == <<mlog, unhandled>>
extractVars == <<etext, epc, edex, eres>>
gateVars == <<grug, gcfg, gpc, gsafe>>
startVars == <<mainpc, dbInit, cleanupScheduled, uninitOps>>
timerVars == <<monitoringInterval, pollTimers, timersMade, monlog>>

vars == <<rows, now, simulation_mode, startVars, timerVars, gateVars, extractVars, signalVars, discVars, sweepVars, corrVars, tradeVars,
          streamVars, histVars>>

\* ------------------------------------------------------- DatabaseService

Row(a, ts, p, lc, st) ==
    [tokenAddress |-> a, timestamp |-> ts, price |-> p, lastCheck |-> lc, status |-> st]

HasRow(rs, a) == \E r \in rs : r.tokenAddress = a

\* INSERT OR REPLACE INTO tokens ... : the primary key replaces the old row.
DbAddToken(rs, token) ==
    {r \in rs : r.tokenAddress # token.tokenAddress} \cup {token}

\* SELECT * FROM tokens WHERE tokenAddress = ?  (token || null)
DbGetToken(rs, a) ==
    IF HasRow(rs, a) THEN CHOOSE r \in rs : r.tokenAddress = a ELSE Null

\* UPDATE tokens SET status = ?, lastCheck = ? WHERE tokenAddress = ?
DbUpdateTokenStatus(rs, a, st, t) ==
    {IF r.tokenAddress = a THEN [r EXCEPT !.status = st, !.lastCheck = t] ELSE r : r \in rs}

\* UPDATE tokens SET price = ?, lastCheck = ? WHERE tokenAddress = ?
DbUpdateTokenPrice(rs, a, p, t) ==
    {IF r.tokenAddress = a THEN [r EXCEPT !.price = p, !.lastCheck = t] ELSE r : r \in rs}

\* SELECT * FROM tokens WHERE status = 'active'
DbGetActiveTokens(rs) == {r \in rs : r.status = "active"}

\* DELETE FROM tokens WHERE lastCheck < cutoffTime AND status = 'inactive'
\* Mutant: a row checked exactly maxAgeHours ago is deleted too.
DbCleanupOldTokens_Inclusive(rs, maxAgeHours, t) ==
    LET cutoffTime == t - maxAgeHours * MS_PER_HOUR
    IN  {r \in rs : ~(r.lastCheck <= cutoffTime /\ r.status = "inactive")}

DbCleanupOldTokens(rs, maxAgeHours, t) ==
    LET cutoffTime == t - maxAgeHours * MS_PER_HOUR
    IN  {r \in rs : ~(r.lastCheck < cutoffTime /\ r.status = "inactive")}

\* ---------------------------------------------------- TokenMonitorService

\* Mutant: lastCheck takes the value of the first clock read.
NewToken_OneRead(a, p, t1, t2) == Row(a, t1, p, t1, "active")

\* addToken: timestamp and lastCheck are two Date.now() reads, the first
\* giving t1 and the second t2; status 'active'.
NewToken(a, p, t1, t2) == Row(a, t1, p, t2, "active")

\* Mutant: the answer of the price endpoint is used as it is.
GetCurrentPrice_Raw(resp) == resp

\* getCurrentPrice: response.data?.data?.[a]?.price || null; a failed request
\* is caught and gives null.  null is written 0 (a price of 0 is turned into
\* null by "|| null").
GetCurrentPrice(resp) == IF resp <= 0 THEN 0 ELSE resp

\* ((currentPrice - token.price) / token.price) * 100 > 200, over the reals.
\* Mutant: a price that has exactly tripled meets the threshold.
ThresholdMet_AtLeast(currentPrice, tokenPrice) ==
    (currentPrice - tokenPrice) * 100 >= THRESHOLD_PERCENT * tokenPrice

ThresholdMet(currentPrice, tokenPrice) ==
    (currentPrice - tokenPrice) * 100 > THRESHOLD_PERCENT * tokenPrice

\* What a sweep keeps of a row it read: the fields checkToken uses.
Snap(r) == [tokenAddress |-> r.tokenAddress, price |-> r.price]

\* ------------------------------------------------------ websocketHandler

\* new WebSocket(wsUrl) with the four listeners of websocketHandler attached:
\* its readyState, whether it has emitted 'error', whether the listeners are
\* still attached, and whether startPing has set its interval.
NewSocket == [state |-> "connecting", errored |-> FALSE, listeners |-> TRUE, ping |-> FALSE]

\* Mutant: the listeners stay attached.
RemoveAllListeners_Kept(sock) == sock

\* ws.removeAllListeners()
RemoveAllListeners(sock) == [sock EXCEPT !.listeners = FALSE]

\* ----------------------------------------------------------------- Init

\* What the metadata lookup (axios.get of /v0/tokens/<mint>) can give: it
\* throws, or answers with data whose name and supply may be missing
\* (written "" and 0).
MetadataAnswers == [ok : BOOLEAN, name : {"", "Token"}, supply : {0, 3}]

MetadataThrows == [ok |-> FALSE, name |-> "", supply |-> 0]

\* Mutant: the name is taken from the answer as it is.
TokenName_NoDefault(meta) == meta.name

\* tokenName: "Unknown", replaced by metadataResponse.data.name || "Unknown"
\* when the lookup returns.
TokenName(meta) == IF meta.ok /\ meta.name # "" THEN meta.name ELSE "Unknown"

\* totalSupply: 0, replaced by metadataResponse.data.supply || 0 when the
\* lookup returns.
TotalSupply(meta) == IF meta.ok THEN meta.supply ELSE 0

\* The fields of the token handed to addToken beside those of the row:
\* marketCap is currentPrice * totalSupply.
Enrichment(meta, currentPrice) ==
    [name |-> TokenName(meta), totalSupply |-> TotalSupply(meta),
     marketCap |-> currentPrice * TotalSupply(meta)]

\* The rugcheck object and the configuration of a process that has not
\* called isTokenSafe.
NoRugcheck ==
    [rugged |-> "false", mintAuthority |-> "null", freezeAuthority |-> "null",
     mutable |-> "false"]

NoAllowances ==
    [allow_mint_authority |-> FALSE, allow_freeze_authority |-> FALSE,
     allow_mutable |-> FALSE]

\* The state of the process after construction, but for the store, the
\* clock and the history of the enrollments.
\* The handlers of the process, none of them running.
InitHandlers ==
    /\ simulation_mode \in BOOLEAN
    /\ dpc = [d \in Discoveries |-> "idle"]
    /\ daddr = [d \in Discoveries |-> ""]
    /\ drug = [d \in Discoveries |-> FALSE]
    /\ dlog = [d \in Discoveries |-> "none"]
    /\ spc = [s \in Sweeps |-> "idle"]
    /\ stoken = [s \in Sweeps |-> Null]
    /\ srest = [s \in Sweeps |-> {}]
    /\ cpc = "idle"
    /\ ctarget = ""
    /\ csignal = 0
    /\ ctoken = ""
    /\ crest = {}
    /\ activeTransactions = 0
    /\ tpc = [t \in Signals |-> "idle"]
    /\ tlog = [t \in Signals |-> "none"]
    /\ timers = 0
    /\ exited = FALSE
    /\ crossingBuys = [a \in Addr |-> 0]
    /\ buyFailed = [a \in Addr |-> FALSE]
    /\ sfailed = [s \in Sweeps |-> FALSE]
    /\ enriched = [a \in Addr |-> Enrichment(MetadataThrows, 0)]
    /\ mlog = "none"
    /\ unhandled = FALSE
    /\ gpc = "start"
    /\ gsafe = FALSE
    /\ epc = "start"
    /\ edex = Null
    /\ eres = Null

\* The process once it is up: the store opened and the cleanup interval
\* set, the poll interval set by startMonitoring, websocketHandler called.
InitProcess ==
    /\ InitHandlers
    /\ socks = <<NewSocket>>
    /\ mainpc = "running"
    /\ dbInit = TRUE
    /\ cleanupScheduled = TRUE
    /\ uninitOps = FALSE
    /\ monitoringInterval = 1
    /\ pollTimers = {1}
    /\ timersMade = 1
    /\ monlog = "started"

\* History: the prices the rows of the store rs were enrolled with, for a
\* store whose rows still have them.
EnrolledPrices(rs) ==
    [a \in Addr |-> IF HasRow(rs, a) THEN DbGetToken(rs, a).price ELSE 0]

Init ==
    /\ rows = {}
    /\ now = 0
    /\ refPrice = EnrolledPrices({})
    /\ etext = <<>>
    /\ grug = NoRugcheck
    /\ gcfg = NoAllowances
    /\ InitProcess

\* Milliseconds of one tick of the clock: an hour past the maximum age.
TickMs == (TOKEN_MAX_AGE_HOURS + 1) * MS_PER_HOUR

\* What a Date.now() read gives that follows a read of t in the same
\* synchronous expression: t, or a later millisecond.
NextClockRead(t) ==
    {t} \cup (IF t % TickMs < MaxClockSkew THEN {t + 1} ELSE {})

\* Date.now() advances by a tick.
Tick ==
    /\ now \div TickMs < MaxTicks
    /\ now' = now + TickMs
    /\ UNCHANGED <<rows, simulation_mode, startVars, timerVars, gateVars, extractVars, signalVars, discVars, sweepVars, corrVars, tradeVars, histVars, streamVars>>

\* History kept at an enrollment of a with price p after the metadata
\* lookup answered meta.
NoteEnrolled(a, p, meta) ==
    /\ refPrice' = [refPrice EXCEPT ![a] = p]
    /\ enriched' = [enriched EXCEPT ![a] = Enrichment(meta, p)]
    /\ crossingBuys' = [crossingBuys EXCEPT ![a] = 0]
    /\ buyFailed' = [buyFailed EXCEPT ![a] = FALSE]
    /\ sfailed' = sfailed

\* ------------------------------------- handleNewTokenFromWebsocket (store)

\* Mutant: the existence check is left out.
AlreadyMonitored_Never(rs, mint) == FALSE

\* Whether the handler stops at the existence check.
AlreadyMonitored(rs, mint) == DbGetToken(rs, mint) # Null

\* Mutant: the catch block of the rug check does not return.
RugCheckErrorEnds_FallsThrough(res) == FALSE

\* Whether the catch block of the rug check ends the handler.
RugCheckErrorEnds(res) == res = "throws"

\* Mutant: the result of the rug check is not looked at.
RugGatePassed_Always(isRugCheckPassed) == TRUE

\* Whether the handler goes on after the rug check.
RugGatePassed(isRugCheckPassed) == isRugCheckPassed

\* The handler is called with txDetails.mint = mint ("" : no mint), reads the
\* store and, for a new address, issues the rug check.
HandleNewTokenCall(d, mint) ==
    /\ daddr' = [daddr EXCEPT ![d] = mint]
    /\ drug' = [drug EXCEPT ![d] = FALSE]
    /\ IF mint = ""
       THEN /\ dlog' = [dlog EXCEPT ![d] = "invalid"]
            /\ dpc' = [dpc EXCEPT ![d] = "idle"]
       ELSE IF AlreadyMonitored(rows, mint)
       THEN /\ dlog' = [dlog EXCEPT ![d] = "already"]
            /\ dpc' = [dpc EXCEPT ![d] = "idle"]
       ELSE /\ dlog' = [dlog EXCEPT ![d] = "none"]
            /\ dpc' = [dpc EXCEPT ![d] = "rug"]

\* handleNewTokenFromWebsocket(txDetails) is called with txDetails.mint = mint.
handleNewTokenFromWebsocket(d, mint) ==
    /\ dpc[d] = "idle"
    /\ HandleNewTokenCall(d, mint)
    /\ UNCHANGED <<rows, now, simulation_mode, startVars, timerVars, gateVars, extractVars, signalVars, sweepVars, corrVars, tradeVars, histVars, streamVars>>

\* getRugCheckConfirmed returns (or throws); on a pass the metadata lookup
\* (best effort, stored nowhere) runs and the price lookup is issued.
DiscoveryRugCheckReturns(d, res) ==
    /\ dpc[d] = "rug"
    /\ LET isRugCheckPassed == (res = "passed")
       IN  /\ drug' = [drug EXCEPT ![d] = isRugCheckPassed]
           /\ IF ~RugCheckErrorEnds(res) /\ (res = "throws" \/ RugGatePassed(isRugCheckPassed))
              THEN /\ dpc' = [dpc EXCEPT ![d] = "price"]
                   /\ dlog' = dlog
              ELSE /\ dpc' = [dpc EXCEPT ![d] = "idle"]
                   /\ dlog' = [dlog EXCEPT ![d] =
                                 IF res = "throws" THEN "rugError" ELSE "rugNotPassed"]
    /\ UNCHANGED <<rows, now, simulation_mode, startVars, timerVars, gateVars, extractVars, signalVars, daddr, sweepVars, corrVars, tradeVars, histVars, streamVars>>

\* The metadata lookup has answered meta (its failure is caught and logged)
\* and getCurrentPrice returns; with a price the token is added.
DiscoveryPriceReturns(d, resp, meta) ==
    /\ dpc[d] = "price"
    /\ dpc' = [dpc EXCEPT ![d] = "idle"]
    /\ LET currentPrice == GetCurrentPrice(resp)
       IN  IF currentPrice # 0
           THEN /\ \E t2 \in NextClockRead(now) :
                     /\ rows' = DbAddToken(rows, NewToken(daddr[d], currentPrice, now, t2))
                     /\ now' = t2
                /\ NoteEnrolled(daddr[d], currentPrice, meta)
                /\ dlog' = [dlog EXCEPT ![d] = "added"]
           ELSE /\ dlog' = [dlog EXCEPT ![d] = "noPrice"]
                /\ UNCHANGED <<rows, now, histVars>>
    /\ UNCHANGED <<simulation_mode, startVars, timerVars, gateVars, extractVars, signalVars, daddr, drug, sweepVars, corrVars, tradeVars, streamVars>>

\* ------------------------------------------- startMonitoring / checkToken

\* The sweep goes on to its next token (after sleep(600)), or ends.
NextToken(s, rest) ==
    IF rest = {}
    THEN /\ spc' = [spc EXCEPT ![s] = "idle"]
         /\ stoken' = [stoken EXCEPT ![s] = Null]
         /\ srest' = [srest EXCEPT ![s] = {}]
    ELSE \E t \in rest :
         /\ spc' = [spc EXCEPT ![s] = "price"]
         /\ stoken' = [stoken EXCEPT ![s] = t]
         /\ srest' = [srest EXCEPT ![s] = rest \ {t}]

\* An interval tick: getActiveTokens, then checkToken of the first token
\* issues its price lookup.
SweepStart(s) ==
    /\ spc[s] = "idle"
    /\ NextToken(s, {Snap(r) : r \in DbGetActiveTokens(rows)})
    /\ sfailed' = [sfailed EXCEPT ![s] = FALSE]
    /\ UNCHANGED <<rows, now, simulation_mode, startVars, timerVars, gateVars, extractVars, signalVars, discVars, corrVars, tradeVars, refPrice, enriched,
                   crossingBuys, buyFailed, streamVars>>

\* History: an operation of the token sweep s is checking failed while
\* the sweep has tokens still to check (the record ends with the sweep).
NoteFailure(s, failed) ==
    sfailed' = [sfailed EXCEPT ![s] = IF spc'[s] = "idle" THEN FALSE
                                      ELSE @ \/ (failed /\ srest[s] # {})]

\* Mutant: the trigger compares with the price the token was enrolled with.
ComparedPrice_Enrollment(token) == refPrice[token.tokenAddress]

\* The price checkToken compares the current price with: token.price, as
\* the sweep read it.
ComparedPrice(token) == token.price

\* checkToken: getCurrentPrice returns; the price is stored and compared
\* with the price the sweep read; a buy or the dev-sold check is issued.
CheckTokenPriceReturns(s, resp) ==
    /\ spc[s] = "price"
    /\ LET currentPrice == GetCurrentPrice(resp)
           token == stoken[s]
           a == token.tokenAddress
           buy == ThresholdMet(currentPrice, ComparedPrice(token))
       IN  IF currentPrice # 0
           THEN /\ rows' = DbUpdateTokenPrice(rows, a, currentPrice, now)
                /\ spc' = [spc EXCEPT ![s] = IF buy THEN "buy" ELSE "dev"]
                /\ crossingBuys' = [crossingBuys EXCEPT ![a] =
                      IF buy THEN (IF @ < 2 THEN @ + 1 ELSE @)
                      ELSE IF ThresholdMet(currentPrice, refPrice[a]) THEN @ ELSE 0]
           ELSE /\ rows' = rows
                /\ spc' = [spc EXCEPT ![s] = "dev"]
                /\ crossingBuys' = crossingBuys
    /\ NoteFailure(s, GetCurrentPrice(resp) = 0)
    /\ UNCHANGED <<now, simulation_mode, startVars, timerVars, gateVars, extractVars, signalVars, discVars, stoken, srest, corrVars, tradeVars, refPrice, enriched, buyFailed, streamVars>>

\* Mutant: buyToken lets the error of a swap through to its caller.
BuyErrorCaught_Rethrown(res) == res # "throws"

\* Whether buyToken returns normally when its swap ended with res: its
\* try block catches and logs an error.
BuyErrorCaught(res) == TRUE

\* buyToken: createSwapTransaction(null, token) returns or throws (caught);
\* the dev-sold check is issued.  (An error that left buyToken would end
\* checkToken in its own catch block.)
CheckTokenBuyReturns(s, res) ==
    /\ spc[s] = "buy"
    /\ IF BuyErrorCaught(res)
       THEN /\ spc' = [spc EXCEPT ![s] = "dev"]
            /\ UNCHANGED <<stoken, srest>>
       ELSE NextToken(s, srest[s])
    /\ buyFailed' = [buyFailed EXCEPT ![stoken[s].tokenAddress] = (res # "tx")]
    /\ NoteFailure(s, res = "throws")
    /\ UNCHANGED <<rows, now, simulation_mode, startVars, timerVars, gateVars, extractVars, signalVars, discVars, corrVars, tradeVars, refPrice, enriched,
                   crossingBuys, streamVars>>

\* checkDevSold returns (false on an error); the sweep goes on.
CheckTokenDevSoldReturns(s, devSold) ==
    /\ spc[s] = "dev"
    /\ rows' = IF devSold
               THEN DbUpdateTokenStatus(rows, stoken[s].tokenAddress, "inactive", now)
               ELSE rows
    /\ NextToken(s, srest[s])
    /\ NoteFailure(s, FALSE)
    /\ UNCHANGED <<now, simulation_mode, startVars, timerVars, gateVars, extractVars, signalVars, discVars, corrVars, tradeVars, refPrice, enriched,
                   crossingBuys, buyFailed, streamVars>>

\* checkToken: the price lookup never returns (axios.get is called with no
\* timeout); nothing resumes the sweep.
CheckTokenPriceHangs(s) ==
    /\ spc[s] = "price"
    /\ spc' = [spc EXCEPT ![s] = "hung"]
    /\ UNCHANGED <<rows, now, simulation_mode, startVars, timerVars, gateVars, extractVars, signalVars, discVars, stoken, srest, corrVars,
                   tradeVars, histVars, streamVars>>

\* Mutant: checkToken lets the error of a store update through to the sweep.
CheckTokenErrorCaught_Rethrown(stage) == FALSE

\* Whether an error thrown inside checkToken at stage ("price": by
\* updateTokenPrice, "dev": by updateTokenStatus) is caught by the try
\* block of checkToken.
CheckTokenErrorCaught(stage) == TRUE

\* checkToken: the store update throws (updateTokenPrice after a price was
\* obtained, updateTokenStatus after checkDevSold returned true).  The
\* catch block of checkToken logs the error and the sweep goes on; an error
\* that left checkToken would end the sweep in the catch block of the
\* interval callback.
CheckTokenStoreThrows(s) ==
    /\ spc[s] \in {"price", "dev"}
    /\ IF CheckTokenErrorCaught(spc[s])
       THEN NextToken(s, srest[s])
       ELSE NextToken(s, {})
    /\ NoteFailure(s, TRUE)
    /\ UNCHANGED <<rows, now, simulation_mode, startVars, timerVars, gateVars, extractVars, signalVars, discVars, corrVars, tradeVars, refPrice, enriched,
                   crossingBuys, buyFailed, streamVars>>

\* startCleanupInterval: the cleanup sweep.
Cleanup ==
    /\ rows' = DbCleanupOldTokens(rows, TOKEN_MAX_AGE_HOURS, now)
    /\ UNCHANGED <<now, simulation_mode, startVars, timerVars, gateVars, extractVars, signalVars, discVars, sweepVars, corrVars, tradeVars, histVars, streamVars>>

\* ------------------------------------------------------- setCorrectToken

\* The sell loop goes on over the tokens it read: a token other than the
\* designated one is sold; after the last one the designated token is looked
\* up in the store rs and, when it has no row, its metadata (best effort) and
\* price are fetched.
CorrectTokenLoop(rs, rest, tokenAddress) ==
    LET others == rest \ {tokenAddress}
    IN  IF others # {}
        THEN \E t \in others :
             /\ cpc' = "sell"
             /\ ctoken' = t
             /\ crest' = others \ {t}
        ELSE /\ cpc' = IF DbGetToken(rs, tokenAddress) = Null THEN "price" ELSE "idle"
             /\ ctoken' = ""
             /\ crest' = {}

\* Mutant: the sell loop lets the error of a swap through.
SellErrorCaught_Rethrown(res) == res # "throws"

\* Whether the sell loop goes on after a sell that ended with res: the try
\* block around each sell catches and logs an error.
SellErrorCaught(res) == TRUE

\* Whether a sell that ended with res marks the token inactive: the status
\* update follows the awaited swap inside the try block.
SellMarksInactive(res) == res # "throws"

\* The call setCorrectToken(tokenAddress): getActiveTokens, then the first sell.
SetCorrectTokenCall(tokenAddress) ==
    /\ ctarget' = tokenAddress
    /\ CorrectTokenLoop(rows, {r.tokenAddress : r \in DbGetActiveTokens(rows)}, tokenAddress)

\* setCorrectToken(tokenAddress) is called.
setCorrectToken(tokenAddress) ==
    /\ cpc = "idle"
    /\ SetCorrectTokenCall(tokenAddress)
    /\ csignal' = 0
    /\ UNCHANGED <<rows, now, simulation_mode, startVars, timerVars, gateVars, extractVars, signalVars, discVars, sweepVars, tradeVars, histVars, streamVars>>

\* createSwapTransaction(token, wsol) returns or throws.
CorrectTokenSellReturns(res) ==
    /\ cpc = "sell"
    /\ LET rs == IF SellMarksInactive(res)
                 THEN DbUpdateTokenStatus(rows, ctoken, "inactive", now)
                 ELSE rows
       IN  /\ rows' = rs
           /\ IF SellErrorCaught(res)
              THEN CorrectTokenLoop(rs, crest, ctarget)
              ELSE cpc' = "idle" /\ ctoken' = "" /\ crest' = {}
    /\ UNCHANGED <<now, simulation_mode, startVars, timerVars, gateVars, extractVars, signalVars, discVars, sweepVars, ctarget, csignal, tradeVars, histVars, streamVars>>

\* The metadata lookup has answered meta (its failure is caught and logged)
\* and getCurrentPrice returns; with a price the designated token is added
\* and its buy is issued.
CorrectTokenPriceReturns(resp, meta) ==
    /\ cpc = "price"
    /\ LET currentPrice == GetCurrentPrice(resp)
       IN  IF currentPrice # 0
           THEN /\ \E t2 \in NextClockRead(now) :
                     /\ rows' = DbAddToken(rows, NewToken(ctarget, currentPrice, now, t2))
                     /\ now' = t2
                /\ NoteEnrolled(ctarget, currentPrice, meta)
                /\ cpc' = "buy"
           ELSE /\ cpc' = "idle"
                /\ UNCHANGED <<rows, now, histVars>>
    /\ UNCHANGED <<simulation_mode, startVars, timerVars, gateVars, extractVars, signalVars, discVars, sweepVars, ctarget, csignal, ctoken, crest, tradeVars, streamVars>>

\* buyToken: createSwapTransaction(null, tokenAddress) returns or throws (caught).
CorrectTokenBuyReturns(res) ==
    /\ cpc = "buy"
    /\ cpc' = "idle"
    /\ UNCHANGED <<rows, now, simulation_mode, startVars, timerVars, gateVars, extractVars, signalVars, discVars, sweepVars, ctarget, csignal, ctoken, crest,
                   tradeVars, histVars, streamVars>>

\* ------------------------------------ onTokenReceived / processTransaction

\* Mutant: there is no admission check.
MaxConcurrentReached_Never(n) == FALSE

\* Mutant: the admission check is off by one.
MaxConcurrentReached_OffByOne(n) == n > MAX_CONCURRENT

\* The admission check of the callback.
MaxConcurrentReached(n) == n >= MAX_CONCURRENT

\* Mutant: the finally block leaves the counter as it is.
Release_Kept(n) == n

\* Mutant: the finally block clears the counter.
Release_Reset(n) == 0

\* What the finally block does to the counter.
Release(n) == n - 1

\* The call onTokenReceived(tokenAddress): the admission check and the
\* increment run without a suspension point; processTransaction runs to its
\* first await.
OnTokenReceivedCall(t, tokenAddress) ==
    IF MaxConcurrentReached(activeTransactions)
    THEN /\ tlog' = [tlog EXCEPT ![t] = "skipped"]
         /\ UNCHANGED <<activeTransactions, tpc>>
    ELSE /\ activeTransactions' = activeTransactions + 1
         /\ tlog' = [tlog EXCEPT ![t] = "accepted"]
         /\ tpc' = [tpc EXCEPT ![t] =
               IF tokenAddress = "" \/ simulation_mode THEN "finally" ELSE "delay"]

\* A signal arrives.
onTokenReceived(t, tokenAddress) ==
    /\ tpc[t] = "idle"
    /\ OnTokenReceivedCall(t, tokenAddress)
    /\ UNCHANGED <<rows, now, simulation_mode, startVars, timerVars, gateVars, extractVars, signalVars, discVars, sweepVars, corrVars, histVars, streamVars>>

\* The initial delay (config.tx.swap_tx_initial_delay) is over: the swap is issued.
ProcessTransactionDelayOver(t) ==
    /\ tpc[t] = "delay"
    /\ tpc' = [tpc EXCEPT ![t] = "swap"]
    /\ UNCHANGED <<rows, now, simulation_mode, startVars, timerVars, gateVars, extractVars, signalVars, discVars, sweepVars, corrVars,
                   activeTransactions, tlog, histVars, streamVars>>

\* createSwapTransaction returns a transaction, returns none, or throws.
ProcessTransactionSwapReturns(t, res) ==
    /\ tpc[t] = "swap"
    /\ tpc' = [tpc EXCEPT ![t] = IF res = "tx" THEN "save" ELSE "finally"]
    /\ UNCHANGED <<rows, now, simulation_mode, startVars, timerVars, gateVars, extractVars, signalVars, discVars, sweepVars, corrVars,
                   activeTransactions, tlog, histVars, streamVars>>

\* createSwapTransaction never returns: processTransaction awaits it with
\* no timeout, and the finally block of the callback waits for it.
ProcessTransactionSwapHangs(t) ==
    /\ tpc[t] = "swap"
    /\ tpc' = [tpc EXCEPT ![t] = "hung"]
    /\ UNCHANGED <<rows, now, simulation_mode, startVars, timerVars, gateVars, extractVars, signalVars, discVars, sweepVars, corrVars,
                   activeTransactions, tlog, histVars, streamVars>>

\* fetchAndSaveSwapDetails returns or throws.
ProcessTransactionSaveReturns(t) ==
    /\ tpc[t] = "save"
    /\ tpc' = [tpc EXCEPT ![t] = "finally"]
    /\ UNCHANGED <<rows, now, simulation_mode, startVars, timerVars, gateVars, extractVars, signalVars, discVars, sweepVars, corrVars,
                   activeTransactions, tlog, histVars, streamVars>>

\* .finally(() => activeTransactions--)
ProcessTransactionFinally(t) ==
    /\ tpc[t] = "finally"
    /\ activeTransactions' = Release(activeTransactions)
    /\ tpc' = [tpc EXCEPT ![t] = "idle"]
    /\ UNCHANGED <<rows, now, simulation_mode, startVars, timerVars, gateVars, extractVars, signalVars, discVars, sweepVars, corrVars, tlog, histVars, streamVars>>

\* --------------------------------------- websocketHandler: ws.on('message')

\* The frames of the stream: one that JSON.parse rejects, and parsed ones
\* with or without a result, an error, params.result.value.logs (missing,
\* not an array, an array with or without the pool-initialization marker)
\* and params.result.value.signature (missing or falsy, a string, another
\* truthy value).
StreamMessages ==
    {[parses |-> FALSE, hasResult |-> FALSE, hasError |-> FALSE, logs |-> "none",
      marker |-> FALSE, signature |-> "none"]}
    \cup
    {m \in [parses : {TRUE}, hasResult : BOOLEAN, hasError : BOOLEAN,
            logs : {"none", "notArray", "array"}, marker : BOOLEAN,
            signature : {"none", "string", "other"}] :
        m.marker => m.logs = "array"}

\* What fetchTransactionDetails gives: it throws, returns null, or returns
\* details with a mint ("" stands for details without one).
DetailsResults == {"throws", "null", "", "A", "B"}

\* Mutant: an error envelope is not filtered out.
IsRpcError_Never(m) == FALSE

\* if (parsedData.error)
IsRpcError(m) == m.hasError

\* Mutant: the signature is not tested to be a string.
SignatureIsString_Unchecked(m) == TRUE

\* typeof signature === "string"
SignatureIsString(m) == m.signature = "string"

\* What the 'message' listener does with a frame before its first await.
IngestOutcome(m) ==
    IF ~m.parses THEN "parseError"
    ELSE IF m.hasResult /\ ~m.hasError THEN "ack"
    ELSE IF IsRpcError(m) THEN "rpcError"
    ELSE IF m.logs # "array" \/ m.signature = "none" THEN "skipped"
    ELSE IF ~m.marker \/ ~SignatureIsString(m) THEN "skipped"
    ELSE "lookup"

\* The socket of run i emits 'message': the listener call d parses the
\* frame and returns, or issues fetchTransactionDetails(signature).
SocketMessage(i, d, m) ==
    /\ ~exited
    /\ socks[i].state = "open" /\ socks[i].listeners
    /\ dpc[d] = "idle"
    /\ IF IngestOutcome(m) = "lookup"
       THEN /\ dpc' = [dpc EXCEPT ![d] = "details"]
            /\ dlog' = [dlog EXCEPT ![d] = "none"]
       ELSE /\ dpc' = dpc
            /\ dlog' = [dlog EXCEPT ![d] = IngestOutcome(m)]
    /\ UNCHANGED <<rows, now, simulation_mode, startVars, timerVars, gateVars, extractVars, signalVars, daddr, drug, sweepVars, corrVars,
                   tradeVars, histVars, streamVars>>

\* fetchTransactionDetails returns or throws; with details the token
\* monitor is handed txDetails.
FetchDetailsReturns(d, details) ==
    /\ dpc[d] = "details"
    /\ IF details \in {"throws", "null"}
       THEN /\ dpc' = [dpc EXCEPT ![d] = "idle"]
            /\ dlog' = [dlog EXCEPT ![d] =
                          IF details = "throws" THEN "detailsError" ELSE "noDetails"]
            /\ UNCHANGED <<daddr, drug>>
       ELSE HandleNewTokenCall(d, details)
    /\ UNCHANGED <<rows, now, simulation_mode, startVars, timerVars, gateVars, extractVars, signalVars, sweepVars, corrVars, tradeVars,
                   histVars, streamVars>>

\* ------------------------------------------------------------ isTokenSafe

\* The values a field of the rugcheck object (typed any) can have, by what
\* a test of the field gives: undefined, null, false and "" are falsy, true
\* and an address are truthy.
JsValues == {"undefined", "null", "false", "empty", "true", "address"}

Truthy(v) == v \in {"true", "address"}

Rugchecks ==
    [rugged : JsValues, mintAuthority : JsValues, freezeAuthority : JsValues,
     mutable : JsValues]

RugCheckConfigs ==
    [allow_mint_authority : BOOLEAN, allow_freeze_authority : BOOLEAN,
     allow_mutable : BOOLEAN]

\* Mutant: the mutable flag is not looked at.
isTokenSafe_MutableIgnored(rugcheck) ==
    /\ ~Truthy(rugcheck.rugged)
    /\ (~Truthy(rugcheck.mintAuthority) \/ gcfg.allow_mint_authority)
    /\ (~Truthy(rugcheck.freezeAuthority) \/ gcfg.allow_freeze_authority)

\* TokenMonitorService.isTokenSafe
isTokenSafe(rugcheck) ==
    /\ ~Truthy(rugcheck.rugged)
    /\ (~Truthy(rugcheck.mintAuthority) \/ gcfg.allow_mint_authority)
    /\ (~Truthy(rugcheck.freezeAuthority) \/ gcfg.allow_freeze_authority)
    /\ (~Truthy(rugcheck.mutable) \/ gcfg.allow_mutable)

\* handleNewToken: the rugcheck result is tested.
IsTokenSafeCall ==
    /\ gpc = "start"
    /\ gpc' = "done"
    /\ gsafe' = isTokenSafe(grug)
    /\ UNCHANGED <<rows, now, simulation_mode, startVars, timerVars, grug, gcfg, extractVars, signalVars, discVars,
                   sweepVars, corrVars, tradeVars, histVars, streamVars>>

\* ------------------------------ extractSolanaAddress / extractTokenAddress

\* A message text is a sequence of lines (message.split('\n')); a line is a
\* sequence of runs of characters of one class: base58 characters ("b58"),
\* white space ("sp") or other characters ("other").  Neighbouring runs of a
\* line differ in class.
B58Lens == {ADDR_MIN_LEN - 1, ADDR_MIN_LEN, ADDR_MAX_LEN, ADDR_MAX_LEN + 1}

Runs ==
    [cls : {"b58"}, len : B58Lens] \cup [cls : {"sp", "other"}, len : {1}]

SeqsUpTo(S, n) == UNION {[1..k -> S] : k \in 0..n}

ExtractLines ==
    {l \in SeqsUpTo(Runs, MaxRuns) : \A j \in 1..Len(l) - 1 : l[j].cls # l[j + 1].cls}

ExtractTexts == SeqsUpTo(ExtractLines, MaxLines) \ {<<>>}

\* The number of characters of the runs before run j of a line.
RECURSIVE Offset(_, _)
Offset(line, j) == IF j <= 1 THEN 0 ELSE Offset(line, j - 1) + line[j - 1].len

\* line.trim(): the white space at both ends is dropped.
Trim(line) ==
    LET first == IF line # <<>> /\ line[1].cls = "sp" THEN 2 ELSE 1
        last == IF Len(line) >= first /\ line[Len(line)].cls = "sp"
                THEN Len(line) - 1 ELSE Len(line)
    IN  SubSeq(line, first, last)

\* The characters trim() drops at the start of a line.
TrimmedAtStart(line) == IF line # <<>> /\ line[1].cls = "sp" THEN line[1].len ELSE 0

\* solanaAddressRegex.test(trimmedLine) for /^[1-9A-HJ-NP-Za-km-z]{44}$/
SolanaAddressRegexTest(trimmedLine) ==
    /\ Len(trimmedLine) = 1
    /\ trimmedLine[1].cls = "b58"
    /\ trimmedLine[1].len = DEX_ADDR_LEN

\* A piece of the text: len characters of line line, from character start on.
Slice(line, start, len) == [line |-> line, start |-> start, len |-> len]

\* DexAnalyseManagerService.extractSolanaAddress: the first line whose
\* trimmed form the anchored pattern matches, or null.
extractSolanaAddress(message) ==
    LET hits == {i \in 1..Len(message) : SolanaAddressRegexTest(Trim(message[i]))}
    IN  IF hits = {} THEN Null
        ELSE LET i == CHOOSE h \in hits : \A g \in hits : h <= g
             IN  Slice(i, TrimmedAtStart(message[i]), DEX_ADDR_LEN)

\* AnalyseManagerService.extractTokenAddress: the leftmost match of the
\* unanchored pattern /[1-9A-HJ-NP-Za-km-z]{32,44}/ in the whole message,
\* as long as the quantifier allows.
extractTokenAddress(message) ==
    LET hits == {ij \in {<<i, j>> : i \in 1..Len(message), j \in 1..MaxRuns + 1} :
                    /\ ij[2] <= Len(message[ij[1]])
                    /\ message[ij[1]][ij[2]].cls = "b58"
                    /\ message[ij[1]][ij[2]].len >= ADDR_MIN_LEN}
    IN  IF hits = {} THEN Null
        ELSE LET h == CHOOSE x \in hits : \A y \in hits :
                          x[1] < y[1] \/ (x[1] = y[1] /\ x[2] <= y[2])
                 run == message[h[1]][h[2]]
             IN  Slice(h[1], Offset(message[h[1]], h[2]),
                       IF run.len > ADDR_MAX_LEN THEN ADDR_MAX_LEN ELSE run.len)

\* Both extractions run on the text.
ExtractAddress ==
    /\ epc = "start"
    /\ epc' = "done"
    /\ edex' = extractSolanaAddress(etext)
    /\ eres' = extractTokenAddress(etext)
    /\ UNCHANGED <<rows, now, simulation_mode, startVars, timerVars, gateVars, etext, signalVars, discVars, sweepVars, corrVars,
                   tradeVars, histVars, streamVars>>

\* -------------------------------- handleNewMessage / analyseTelegramMessage

CryptoPumpClubChannelId == "1625691880"
CryptoBotTestChannelId == "1629064884"

\* The channel ids of the messages: the two of the code and another one.
Channels == {CryptoPumpClubChannelId, CryptoBotTestChannelId, "1000000001"}

\* A message: empty (no text in the event) or some text.
Messages == {"", "text"}

\* The channel test of handleNewMessage and of analyseTelegramMessage.
ChannelAllowed(channelId) ==
    channelId = CryptoPumpClubChannelId \/ channelId = CryptoBotTestChannelId

\* Mutant: the callbacks run whatever the extraction gave.
AddressFound_Always(tokenAddress) == TRUE

\* The test of the extracted address; "" stands for null.
AddressFound(tokenAddress) == tokenAddress # ""

\* The promise of a setCorrectToken call is rejected: analyseTelegramMessage
\* called it without await and attached no handler.
SetCorrectTokenRejects ==
    /\ unhandled' = TRUE
    /\ UNCHANGED corrVars

\* The Telegram client delivers a message of channel channelId;
\* tokenAddress is what extractTokenAddress finds in it.  On an allowed
\* channel with an address, setCorrectToken is called (not awaited; its
\* store read gives the active tokens or throws) and then the callback
\* onTokenReceived.  One designation is followed at a time.
handleNewMessage(t, message, channelId, tokenAddress, storeOk) ==
    /\ tpc[t] = "idle"
    /\ cpc = "idle"
    /\ IF message = ""
       THEN /\ mlog' = "empty"
            /\ UNCHANGED <<corrVars, tradeVars, unhandled>>
       ELSE IF ~ChannelAllowed(channelId)
       THEN /\ mlog' = "otherChannel"
            /\ UNCHANGED <<corrVars, tradeVars, unhandled>>
       ELSE IF ~AddressFound(tokenAddress)
       THEN /\ mlog' = "noAddress"
            /\ UNCHANGED <<corrVars, tradeVars, unhandled>>
       ELSE /\ mlog' = "dispatched"
            /\ IF storeOk
               THEN /\ SetCorrectTokenCall(tokenAddress)
                    /\ csignal' = t
                    /\ unhandled' = unhandled
               ELSE SetCorrectTokenRejects
            /\ OnTokenReceivedCall(t, tokenAddress)
    /\ UNCHANGED <<rows, now, simulation_mode, startVars, timerVars, gateVars, extractVars, discVars, sweepVars, histVars, streamVars>>

\* setCorrectToken: addToken throws after the price lookup gave a price;
\* the promise of the call is rejected.
CorrectTokenStoreThrows ==
    /\ cpc = "price"
    /\ cpc' = "idle"
    /\ unhandled' = TRUE
    /\ UNCHANGED <<rows, now, simulation_mode, startVars, timerVars, gateVars, extractVars, mlog, discVars, sweepVars, ctarget, csignal, ctoken, crest,
                   tradeVars, histVars, streamVars>>

\* ------------------------------------------------------ websocketHandler

\* The 'error' and the 'close' listener: the listeners are removed and a
\* reconnect is scheduled.
OnFailure(i, sock) ==
    IF sock.listeners
    THEN /\ socks' = [socks EXCEPT ![i] = RemoveAllListeners(sock)]
         /\ timers' = timers + 1
    ELSE /\ socks' = [socks EXCEPT ![i] = sock]
         /\ timers' = timers

\* The connection is established: 'open' sends the subscription and starts
\* the ping interval.
SocketOpens(i) ==
    /\ ~exited
    /\ socks[i].state = "connecting"
    /\ socks' = [socks EXCEPT ![i] =
          [@ EXCEPT !.state = "open", !.ping = socks[i].listeners \/ @]]
    /\ UNCHANGED <<rows, now, simulation_mode, startVars, timerVars, gateVars, extractVars, signalVars, discVars, sweepVars, corrVars, tradeVars,
                   timers, exited, histVars>>

\* A transport error: the socket emits 'error' once and starts closing.
SocketError(i) ==
    /\ ~exited
    /\ socks[i].state \in {"connecting", "open"}
    /\ OnFailure(i, [socks[i] EXCEPT !.state = "closing", !.errored = TRUE])
    /\ UNCHANGED <<rows, now, simulation_mode, startVars, timerVars, gateVars, extractVars, signalVars, discVars, sweepVars, corrVars, tradeVars,
                   exited, histVars>>

\* The connection is closed (after an error or without one): the socket
\* emits 'close'.
SocketClose(i) ==
    /\ ~exited
    /\ socks[i].state \in {"connecting", "open", "closing"}
    /\ OnFailure(i, [socks[i] EXCEPT !.state = "closed"])
    /\ UNCHANGED <<rows, now, simulation_mode, startVars, timerVars, gateVars, extractVars, signalVars, discVars, sweepVars, corrVars, tradeVars,
                   exited, histVars>>

\* A reconnect timer fires: websocketHandler runs and connects.
ReconnectTimerFires ==
    /\ ~exited
    /\ timers > 0
    /\ Len(socks) < MaxConnections
    /\ timers' = timers - 1
    /\ socks' = Append(socks, NewSocket)
    /\ UNCHANGED <<rows, now, simulation_mode, startVars, timerVars, gateVars, extractVars, signalVars, discVars, sweepVars, corrVars, tradeVars,
                   exited, histVars>>

\* The websocketHandler run whose 'SIGINT' listener ends the process: every
\* run registers one, the listeners of an event are called in the order of
\* their registration, and the first one calls process.exit(0).
ExitingRun == 1

\* SIGINT arrives: the listener of run ExitingRun closes the socket of its
\* run and removes its listeners, unless its ws is null already (set by the
\* 'error' or 'close' listener of that socket), and the process exits.
Sigint ==
    /\ ~exited
    /\ exited' = TRUE
    /\ socks' = [socks EXCEPT ![ExitingRun] =
          IF @.listeners
          THEN RemoveAllListeners([@ EXCEPT !.state = "closing"])
          ELSE @]
    /\ UNCHANGED <<rows, now, simulation_mode, startVars, timerVars, gateVars, extractVars, signalVars, discVars, sweepVars, corrVars, tradeVars,
                   timers, histVars>>

\* ---------------------------------------- startMonitoring / stopMonitoring

\* Mutant: the interval stays set.
ClearInterval_Kept(timerSet, id) == timerSet

\* clearInterval(id)
ClearInterval(timerSet, id) == timerSet \ {id}

\* startMonitoring: with monitoringInterval set it warns and returns;
\* otherwise setInterval makes a timer and monitoringInterval holds it.
StartMonitoringCall ==
    IF monitoringInterval # 0
    THEN /\ monlog' = "alreadyRunning"
         /\ UNCHANGED <<monitoringInterval, pollTimers, timersMade>>
    ELSE /\ timersMade' = timersMade + 1
         /\ monitoringInterval' = timersMade + 1
         /\ pollTimers' = pollTimers \cup {timersMade + 1}
         /\ monlog' = "started"

\* A call of startMonitoring.
startMonitoring ==
    /\ monitoringInterval = 0 => timersMade < NumStarts
    /\ StartMonitoringCall
    /\ UNCHANGED <<rows, now, simulation_mode, startVars, gateVars, extractVars, signalVars,
                   discVars, sweepVars, corrVars, tradeVars, histVars, streamVars>>

\* A call of stopMonitoring: the interval monitoringInterval holds is
\* cleared and monitoringInterval is set to null.
stopMonitoring ==
    /\ IF monitoringInterval # 0
       THEN /\ pollTimers' = ClearInterval(pollTimers, monitoringInterval)
            /\ monitoringInterval' = 0
            /\ monlog' = "stopped"
       ELSE /\ monlog' = "notRunning"
            /\ UNCHANGED <<monitoringInterval, pollTimers>>
    /\ UNCHANGED <<rows, now, simulation_mode, startVars, timersMade, gateVars, extractVars,
                   signalVars, discVars, sweepVars, corrVars, tradeVars, histVars, streamVars>>

\* An interval of startMonitoring fires: the callback of sweep s runs.
IntervalFires(s) ==
    /\ pollTimers # {}
    /\ SweepStart(s)

\* -------------------------------------------------------------------- main

\* TokenMonitorService.initialize: DatabaseService.initialize opens the
\* store and creates the table, then startCleanupInterval sets the cleanup
\* interval.  No function of the program calls it.
TokenMonitorInitialize ==
    /\ dbInit' = TRUE
    /\ cleanupScheduled' = TRUE
    /\ UNCHANGED <<rows, now, simulation_mode, mainpc, uninitOps, timerVars, gateVars,
                   extractVars, signalVars, discVars, sweepVars, corrVars, tradeVars,
                   histVars, streamVars>>

\* main is called: the services are constructed and wired, and
\* telegramClient.initialize() is awaited.
MainStarts ==
    /\ mainpc = "start"
    /\ mainpc' = "telegram"
    /\ UNCHANGED <<rows, now, simulation_mode, dbInit, cleanupScheduled, uninitOps, timerVars,
                   gateVars, extractVars, signalVars, discVars, sweepVars, corrVars,
                   tradeVars, histVars, streamVars>>

\* telegramClient.initialize() returns or throws.  After its return
\* startMonitoring is called and websocketHandler makes the connection;
\* main goes on to the rug checks of its fixed addresses.  When it throws
\* the catch block of main ends the process.
MainTelegramInitialized(ok) ==
    /\ mainpc = "telegram"
    /\ IF ok
       THEN /\ mainpc' = "rugchecks"
            /\ StartMonitoringCall
            /\ socks' = Append(socks, NewSocket)
            /\ exited' = exited
       ELSE /\ mainpc' = "failed"
            /\ exited' = TRUE
            /\ UNCHANGED <<timerVars, socks>>
    /\ UNCHANGED <<rows, now, simulation_mode, dbInit, cleanupScheduled, uninitOps, gateVars,
                   extractVars, signalVars, discVars, sweepVars, corrVars, tradeVars,
                   histVars, timers>>

\* The rug checks of main have ended.
MainRugChecksDone ==
    /\ mainpc = "rugchecks"
    /\ ~exited
    /\ mainpc' = "running"
    /\ UNCHANGED <<rows, now, simulation_mode, dbInit, cleanupScheduled, uninitOps, timerVars,
                   gateVars, extractVars, signalVars, discVars, sweepVars, corrVars,
                   tradeVars, histVars, streamVars>>

\* A store operation on a DatabaseService whose initialize has not run:
\* this.db is undefined, the operation throws in its try block, logs and
\* rethrows, and the caller's catch block logs the error.
StoreNotOpened ==
    /\ ~dbInit
    /\ uninitOps' = TRUE
    /\ UNCHANGED <<rows, now, simulation_mode, mainpc, dbInit, cleanupScheduled, timerVars,
                   gateVars, extractVars, signalVars, discVars, sweepVars, corrVars,
                   tradeVars, histVars, streamVars>>

\* The poll interval fires before the store is opened: getActiveTokens.
PollTickStoreNotOpened ==
    /\ ~exited
    /\ pollTimers # {}
    /\ StoreNotOpened

\* The stream delivers a pool creation on socket i before the store is
\* opened: getToken of handleNewTokenFromWebsocket.
DiscoveryStoreNotOpened(i) ==
    /\ ~exited
    /\ socks[i].state = "open" /\ socks[i].listeners
    /\ StoreNotOpened

\* ------------------------------------------------------- specifications

\* Discovery calls DS over the addresses AS.
DiscoveryNext(AS, DS, MS) ==
    \/ \E d \in DS, mint \in AS \cup {""} : handleNewTokenFromWebsocket(d, mint)
    \/ \E d \in DS, res \in RugResults : DiscoveryRugCheckReturns(d, res)
    \/ \E d \in DS, resp \in PriceResponses, meta \in MS : DiscoveryPriceReturns(d, resp, meta)

\* Poll sweeps SS.
SweepNext(SS) ==
    \/ \E s \in SS : SweepStart(s)
    \/ \E s \in SS, resp \in PriceResponses : CheckTokenPriceReturns(s, resp)
    \/ \E s \in SS, res \in SwapResults : CheckTokenBuyReturns(s, res)
    \/ \E s \in SS, devSold \in BOOLEAN : CheckTokenDevSoldReturns(s, devSold)

\* The clock and the cleanup interval.
CleanupNext ==
    \/ Tick
    \/ Cleanup

\* Designations of the addresses AS: enrollment and buy of the designated token.
DesignationNext(AS, MS) ==
    \/ \E a \in AS : setCorrectToken(a)
    \/ \E resp \in PriceResponses, meta \in MS : CorrectTokenPriceReturns(resp, meta)
    \/ \E res \in SwapResults : CorrectTokenBuyReturns(res)

\* The sells of a designation (there is one only with two addresses).
SellNext ==
    \E res \in SwapResults : CorrectTokenSellReturns(res)

\* The steps of the trades of the callbacks TS.
ProcessTransactionNext(TS) ==
    \/ \E t \in TS : ProcessTransactionDelayOver(t)
    \/ \E t \in TS, res \in SwapResults : ProcessTransactionSwapReturns(t, res)
    \/ \E t \in TS : ProcessTransactionSaveReturns(t)
    \/ \E t \in TS : ProcessTransactionFinally(t)

TradeNext(TS) ==
    \/ \E t \in TS, a \in Addr \cup {""} : onTokenReceived(t, a)
    \/ ProcessTransactionNext(TS)

\* The whole process over one address: the signal-triggered trade path
\* beside one discovery call, one sweep, designation and cleanup.
Next ==
    \/ DiscoveryNext({"A"}, {1}, {MetadataThrows})
    \/ SweepNext({1})
    \/ CleanupNext
    \/ DesignationNext({"A"}, {MetadataThrows})
    \/ TradeNext(1..MAX_CONCURRENT)

Spec == Init /\ [][Next]_vars

\* The monitor over one address under every interleaving of concurrent
\* discovery calls, overlapping sweeps and designation.
NextOne ==
    \/ DiscoveryNext({"A"}, Discoveries, {MetadataThrows})
    \/ SweepNext(Sweeps)
    \/ DesignationNext({"A"}, {MetadataThrows})

SpecOne == Init /\ [][NextOne]_vars

\* The monitor over one address: one discovery call, one sweep, designation
\* and cleanup as the clock advances.
NextMonitor ==
    \/ DiscoveryNext({"A"}, {1}, {MetadataThrows})
    \/ SweepNext({1})
    \/ CleanupNext
    \/ DesignationNext({"A"}, {MetadataThrows})

SpecMonitor == Init /\ [][NextMonitor]_vars

\* Enrollment over one address: concurrent discovery calls beside one sweep
\* and designation, within one tick of the clock.
NextEnroll ==
    \/ DiscoveryNext({"A"}, Discoveries, {MetadataThrows})
    \/ SweepNext({1})
    \/ DesignationNext({"A"}, {MetadataThrows})

SpecEnroll == Init /\ [][NextEnroll]_vars

\* Designations over three addresses, one after the other: a sell loop has
\* more than one token to sell once an earlier sell has failed.
NextSell ==
    \/ DesignationNext(Addr, {MetadataThrows})
    \/ SellNext

SpecSell == Init /\ [][NextSell]_vars

\* The address extraction applied to every text of ExtractTexts.
InitExtract ==
    /\ rows = {}
    /\ now = 0
    /\ refPrice = EnrolledPrices({})
    /\ etext \in ExtractTexts
    /\ grug = NoRugcheck
    /\ gcfg = NoAllowances
    /\ InitProcess

SpecExtract == InitExtract /\ [][ExtractAddress]_vars

\* Enrollment with every answer of the metadata lookup: a discovery of A
\* and a designation of B.
NextEnrich ==
    \/ DiscoveryNext({"A"}, {1}, MetadataAnswers)
    \/ DesignationNext({"B"}, MetadataAnswers)

SpecEnrich == Init /\ [][NextEnrich]_vars

\* isTokenSafe applied to every rugcheck object under every configuration.
InitGate ==
    /\ rows = {}
    /\ now = 0
    /\ refPrice = EnrolledPrices({})
    /\ etext = <<>>
    /\ grug \in Rugchecks
    /\ gcfg \in RugCheckConfigs
    /\ InitProcess

SpecGate == InitGate /\ [][IsTokenSafeCall]_vars

\* The stream ingestor on the first connection: frames, detail lookups and
\* the discovery calls they start, one listener call at a time.
NextIngest ==
    \/ SocketOpens(1)
    \/ SocketError(1)
    \/ \E m \in StreamMessages : SocketMessage(1, 1, m)
    \/ \E details \in DetailsResults : FetchDetailsReturns(1, details)
    \/ \E res \in RugResults : DiscoveryRugCheckReturns(1, res)
    \/ \E resp \in PriceResponses : DiscoveryPriceReturns(1, resp, MetadataThrows)

SpecIngest == Init /\ [][NextIngest]_vars

\* One sweep and the trade path with external calls that may never return.
\* Whatever can go on does go on: the steps of the sweep and of each trade
\* are taken when they stay possible.
NextHang ==
    \/ DiscoveryNext({"A"}, {1}, {MetadataThrows})
    \/ SweepNext({1})
    \/ CheckTokenPriceHangs(1)
    \/ TradeNext(1..MAX_CONCURRENT)
    \/ \E t \in 1..MAX_CONCURRENT : ProcessTransactionSwapHangs(t)

SpecHang ==
    /\ Init /\ [][NextHang]_vars
    /\ WF_vars(SweepNext({1}))
    /\ \A t \in 1..MAX_CONCURRENT : WF_vars(ProcessTransactionNext({t}))

\* The retention horizon of the cleanup in milliseconds.
HorizonMs == TOKEN_MAX_AGE_HOURS * MS_PER_HOUR

\* Stores the cleanup can find: at most one row per address, active or
\* inactive, last checked in the first milliseconds of the clock.
CleanupStores ==
    {rs \in SUBSET {Row(a, 0, 1, lc, st) : a \in Addr, lc \in 0..MaxClockSkew + 1,
                                           st \in {"active", "inactive"}} :
        \A r1, r2 \in rs : r1.tokenAddress = r2.tokenAddress => r1 = r2}

\* The cleanup sweep over a store in which it finds something to delete,
\* run one or two milliseconds past the retention horizon.
InitCleanup ==
    /\ now \in HorizonMs + 1 .. HorizonMs + 2
    /\ rows \in {rs \in CleanupStores :
                   DbCleanupOldTokens(rs, TOKEN_MAX_AGE_HOURS, now) # rs}
    /\ refPrice = EnrolledPrices(rows)
    /\ etext = <<>>
    /\ grug = NoRugcheck
    /\ gcfg = NoAllowances
    /\ InitProcess

\* The prices of the threshold check: stored prices 1 and 2 and observed
\* prices up to MaxPrice, so that a price below, at and above three times
\* the stored price occurs.
ThresholdResponses == {-1, 0} \cup 1..MaxPrice

\* One sweep over a store with token A enrolled at price 1 or 2.
InitThreshold ==
    /\ rows \in {{Row("A", 0, p, 0, "active")} : p \in 1..2}
    /\ now = 0
    /\ refPrice = EnrolledPrices(rows)
    /\ etext = <<>>
    /\ grug = NoRugcheck
    /\ gcfg = NoAllowances
    /\ InitProcess

NextThreshold ==
    \/ SweepStart(1)
    \/ \E resp \in ThresholdResponses : CheckTokenPriceReturns(1, resp)
    \/ \E res \in SwapResults : CheckTokenBuyReturns(1, res)
    \/ \E devSold \in BOOLEAN : CheckTokenDevSoldReturns(1, devSold)

SpecThreshold == InitThreshold /\ [][NextThreshold]_vars

SpecCleanup == InitCleanup /\ [][Cleanup]_vars

\* The addresses extracted from the messages of the signal path: none or A.
SignalAddr == {"", "A"}

\* The signal path: messages of the Telegram client, the designations of A
\* and the trades they trigger.
NextSignal ==
    \/ \E t \in 1..MAX_CONCURRENT, message \in Messages, channelId \in Channels,
          tokenAddress \in SignalAddr, storeOk \in BOOLEAN :
            handleNewMessage(t, message, channelId, tokenAddress, storeOk)
    \/ \E resp \in PriceResponses : CorrectTokenPriceReturns(resp, MetadataThrows)
    \/ \E res \in SwapResults : CorrectTokenBuyReturns(res)
    \/ CorrectTokenStoreThrows
    \/ ProcessTransactionNext(1..MAX_CONCURRENT)

SpecSignal == Init /\ [][NextSignal]_vars

\* Poll sweeps over the tokens a discovery call enrolled, one after the
\* other, with failing store updates.
NextSweep ==
    \/ DiscoveryNext({"A", "B"}, {1}, {MetadataThrows})
    \/ SweepNext({1})
    \/ CheckTokenStoreThrows(1)

SpecSweep == Init /\ [][NextSweep]_vars

\* The signal-triggered trade path alone.
SpecTrade == Init /\ [][TradeNext(Signals)]_vars

\* The monitor over two addresses: one discovery call and one sweep of A,
\* and designations of B with their sells of A.
NextTwo ==
    \/ DiscoveryNext({"A"}, {1}, {MetadataThrows})
    \/ SweepNext({1})
    \/ DesignationNext({"B"}, {MetadataThrows})
    \/ SellNext

SpecTwo == Init /\ [][NextTwo]_vars

\* The stream connection: opens, errors, closes and reconnects.  A timer
\* set with setTimeout fires.
StreamNext ==
    \/ \E i \in 1..Len(socks) : SocketOpens(i)
    \/ \E i \in 1..Len(socks) : SocketError(i)
    \/ \E i \in 1..Len(socks) : SocketClose(i)
    \/ ReconnectTimerFires
    \/ Sigint

SpecStream == Init /\ [][StreamNext]_vars /\ WF_vars(ReconnectTimerFires)

\* The process from the call of main on.
InitStartup ==
    /\ rows = {}
    /\ now = 0
    /\ refPrice = EnrolledPrices({})
    /\ etext = <<>>
    /\ grug = NoRugcheck
    /\ gcfg = NoAllowances
    /\ InitHandlers
    /\ socks = <<>>
    /\ mainpc = "start"
    /\ dbInit = FALSE
    /\ cleanupScheduled = FALSE
    /\ uninitOps = FALSE
    /\ monitoringInterval = 0
    /\ pollTimers = {}
    /\ timersMade = 0
    /\ monlog = "none"

NextStartup ==
    \/ MainStarts
    \/ \E ok \in BOOLEAN : MainTelegramInitialized(ok)
    \/ MainRugChecksDone
    \/ PollTickStoreNotOpened
    \/ \E i \in 1..Len(socks) : DiscoveryStoreNotOpened(i)
    \/ \E i \in 1..Len(socks) : SocketOpens(i)
    \/ \E i \in 1..Len(socks) : SocketError(i)
    \/ \E i \in 1..Len(socks) : SocketClose(i)
    \/ ReconnectTimerFires

SpecStartup == InitStartup /\ [][NextStartup]_vars

\* The store-backed monitor before its first startMonitoring call, the
\* store open.
InitPoll ==
    /\ rows = {}
    /\ now = 0
    /\ refPrice = EnrolledPrices({})
    /\ etext = <<>>
    /\ grug = NoRugcheck
    /\ gcfg = NoAllowances
    /\ InitHandlers
    /\ socks = <<NewSocket>>
    /\ mainpc = "running"
    /\ dbInit = TRUE
    /\ cleanupScheduled = TRUE
    /\ uninitOps = FALSE
    /\ monitoringInterval = 0
    /\ pollTimers = {}
    /\ timersMade = 0
    /\ monlog = "none"

\* startMonitoring and stopMonitoring calls in any order, the sweeps the
\* interval starts, and a discovery call that enrolls their token.
NextPoll ==
    \/ startMonitoring
    \/ stopMonitoring
    \/ IntervalFires(1)
    \/ \E resp \in PriceResponses : CheckTokenPriceReturns(1, resp)
    \/ \E res \in SwapResults : CheckTokenBuyReturns(1, res)
    \/ \E devSold \in BOOLEAN : CheckTokenDevSoldReturns(1, devSold)
    \/ DiscoveryNext({"A"}, {1}, {MetadataThrows})

SpecPoll == InitPoll /\ [][NextPoll]_vars

\* ------------------------------------------------------------- properties

StatusOf(rs, a) == DbGetToken(rs, a).status
PriceOf(rs, a) == DbGetToken(rs, a).price

\* createSwapTransaction calls in flight, over every caller.
SwapsInFlight ==
    Cardinality({t \in Signals : tpc[t] = "swap"})
    + Cardinality({s \in Sweeps : spc[s] = "buy"})
    + (IF cpc \in {"sell", "buy"} THEN 1 ELSE 0)

\* This step is the enrollment write of discovery call d for address a.
DiscoveryEnrolls(d, a) ==
    /\ dpc[d] = "price" /\ daddr[d] = a
    /\ dpc'[d] = "idle" /\ dlog'[d] = "added"

\* This step is the enrollment write of a designation of a.
DesignationEnrolls(a) ==
    /\ cpc = "price" /\ ctarget = a
    /\ cpc' = "buy"

\* C1: once the row of an address has status 'inactive', no step makes the
\* row of that address 'active' again.
C1_StatusMonotonic ==
    [][\A a \in Addr :
         (HasRow(rows, a) /\ StatusOf(rows, a) = "inactive")
           => ~(HasRow(rows', a) /\ StatusOf(rows', a) = "active")]_vars

\* C2: the in-flight counter stays within 0..MAX_CONCURRENT.
C2_CounterInRange ==
    activeTransactions >= 0 /\ activeTransactions <= MAX_CONCURRENT

\* The counter is at the cap with one attempt waiting for its swap and
\* another about to release its slot.
C2_Witness ==
    /\ activeTransactions = MAX_CONCURRENT
    /\ \E t1, t2 \in Signals : tpc[t1] = "swap" /\ tpc[t2] = "finally"

\* C3: at most MAX_CONCURRENT swap operations are in flight, counted over
\* every caller.
C3_SwapsWithinCap == SwapsInFlight <= MAX_CONCURRENT

\* C4: with simulation_mode set no swap is in flight, whoever the caller.
C4_SimulationNoSwap == simulation_mode => SwapsInFlight = 0

\* C5: the table holds at most one row per address, and a discovery of an
\* address that has a row ends at the existence check: the table is left as
\* it is and neither the rug check nor the price lookup is issued.
C5_IdempotentEnrollment ==
    [][/\ \A r1, r2 \in rows' : r1.tokenAddress = r2.tokenAddress => r1 = r2
       /\ \A d \in Discoveries :
            \A a \in {r.tokenAddress : r \in rows} :
               (dpc[d] = "idle" /\ daddr'[d] = a /\ handleNewTokenFromWebsocket(d, a))
                 => (rows' = rows /\ dpc'[d] = "idle" /\ dlog'[d] = "already")]_vars

\* A discovery call has just ended at the existence check of an enrolled address.
C5_Witness ==
    \E d \in Discoveries :
        dlog[d] = "already" /\ dpc[d] = "idle" /\ HasRow(rows, daddr[d])

\* C6: while the observed price stays above the threshold over the reference
\* price, the polls dispatch at most one buy.
C6_OneBuyPerCrossing == \A a \in Addr : crossingBuys[a] <= 1

LiveSockets == Cardinality({i \in 1..Len(socks) : socks[i].listeners})

\* C8: while the process runs, exactly one of these holds at any time: one
\* socket has the listeners attached, or one reconnect timer is pending (so a
\* failure of the live socket, also an error followed by the close of the
\* same socket, schedules exactly one reconnect); and a pending reconnect
\* timer leads to a new connection, as long as the process runs and the
\* model follows further connections.
C8_ExactlyOneReconnect ==
    /\ [](~exited => LiveSockets + timers = 1)
    /\ (~exited /\ timers > 0 /\ Len(socks) < MaxConnections)
         ~> (exited \/ (timers = 0 /\ LiveSockets = 1))

\* The first socket emitted 'error' and then closed, and one reconnect made
\* the one live socket; that one failed in turn and its reconnect is pending.
C8_Witness ==
    /\ ~exited /\ Len(socks) = 2
    /\ socks[1].errored /\ socks[1].state = "closed"
    /\ ~socks[2].listeners /\ timers = 1

\* C9: a rug check that throws or does not pass ends the discovery call: no
\* row is written, no price lookup is issued and no swap is dispatched; a
\* call waits for a price only after a passed rug check.
C9_GateFailsClosed ==
    [][\A d \in Discoveries :
         /\ (dpc[d] = "rug" /\ dpc'[d] # "rug" /\ ~drug'[d])
              => (dpc'[d] = "idle" /\ rows' = rows /\ SwapsInFlight' = SwapsInFlight)
         /\ dpc'[d] = "price" => drug'[d]]_vars

\* A discovery call ended at a failed rug check and its address has no row.
C9_Witness ==
    \E d \in Discoveries :
        /\ dlog[d] \in {"rugError", "rugNotPassed"}
        /\ dpc[d] = "idle" /\ ~HasRow(rows, daddr[d])

\* C10 as claimed: a row appears only in the enrollment write of a discovery
\* call whose rug check passed.
C10_EveryRowGated ==
    [][\A a \in Addr :
         (~HasRow(rows, a) /\ HasRow(rows', a))
           => \E d \in Discoveries : DiscoveryEnrolls(d, a) /\ drug[d]]_vars

\* C10 as amended: a row appears only in the enrollment write of a discovery
\* call whose rug check passed, or in the enrollment write of a designation,
\* which runs no rug check.
C10_RowGatedOrDesignated ==
    [][\A a \in Addr :
         (~HasRow(rows, a) /\ HasRow(rows', a))
           => \/ \E d \in Discoveries : DiscoveryEnrolls(d, a) /\ drug[d]
              \/ DesignationEnrolls(a)]_vars

\* A designation has enrolled its token, for which no rug check ever passed,
\* and a discovery call has enrolled nothing yet.
C10_Witness ==
    /\ cpc = "buy" /\ HasRow(rows, ctarget)
    /\ \A d \in Discoveries : ~drug[d]

\* The rows of the addresses other than a.
RowsExcept(rs, a) == {r \in rs : r.tokenAddress # a}

\* C11 as claimed: the enrollment write of a discovery leaves exactly one row
\* of its address: active, with the price the lookup returned, and with
\* timestamp and lastCheck both equal to the time of the enrollment; the rows
\* of other addresses stay as they are.
C11_EnrollmentRecord ==
    [][\A d \in Discoveries, a \in Addr :
         DiscoveryEnrolls(d, a)
           => rows' = RowsExcept(rows, a)
                        \cup {Row(a, now, refPrice'[a], now, "active")}]_vars

\* C11 as amended: the enrollment write of a discovery leaves exactly one row
\* of its address: active, with the price the lookup returned (a positive
\* price), timestamp the clock read at the start of the write and lastCheck
\* the next clock read, which is the same or later; the rows of other
\* addresses stay as they are.
C11_EnrollmentRecordTwoReads ==
    [][\A d \in Discoveries, a \in Addr :
         DiscoveryEnrolls(d, a)
           => /\ rows' = RowsExcept(rows, a)
                           \cup {Row(a, now, refPrice'[a], now', "active")}
              /\ refPrice'[a] \in Prices
              /\ now' >= now]_vars

\* A discovery has enrolled its address after the clock advanced by a tick,
\* and the two clock reads of the write differ.
C11_Witness ==
    \E d \in Discoveries : \E r \in rows :
        /\ dlog[d] = "added" /\ r.tokenAddress = daddr[d]
        /\ r.status = "active" /\ r.price = refPrice[daddr[d]]
        /\ r.timestamp >= TickMs /\ r.lastCheck = r.timestamp + 1
        /\ now = r.lastCheck

\* C12: a price lookup of an enrollment (of a discovery or of a designation)
\* that fails or returns no price ends the enrollment: the table is left as
\* it is and no buy is issued; and no row ever has a price that is not
\* positive.
C12_NoPriceNoRecord ==
    [][/\ \A r \in rows' : r.price > 0
       /\ \A resp \in PriceResponses \ Prices :
            \A meta \in MetadataAnswers :
              /\ \A d \in Discoveries :
                   DiscoveryPriceReturns(d, resp, meta)
                     => (rows' = rows /\ dpc'[d] = "idle")
              /\ CorrectTokenPriceReturns(resp, meta)
                   => (rows' = rows /\ cpc' = "idle")]_vars

\* A discovery that passed the rug check got no price and its address has
\* no row.
C12_Witness ==
    \E d \in Discoveries :
        /\ dlog[d] = "noPrice" /\ dpc[d] = "idle" /\ drug[d]
        /\ ~HasRow(rows, daddr[d])

\* C13: an evaluation of a token goes on to the dev-sold check whatever its
\* price lookup and its buy gave (no price, below or above the threshold, a
\* failed buy), and when the dev-sold check returns true the row of the
\* token is inactive at the end of the evaluation.
C13_DevSoldMarksInactive ==
    [][\A s \in Sweeps :
         /\ (spc[s] = "price" /\ spc'[s] # "price")
              => (spc'[s] \in {"buy", "dev"} /\ stoken'[s] = stoken[s])
         /\ (spc[s] = "buy" /\ spc'[s] # "buy")
              => (spc'[s] = "dev" /\ stoken'[s] = stoken[s])
         /\ CheckTokenDevSoldReturns(s, TRUE)
              => \A r \in rows' :
                   r.tokenAddress = stoken[s].tokenAddress => r.status = "inactive"]_vars

\* A token for which a poll dispatched a buy has been marked inactive by
\* the dev-sold check, and the sweep has ended.
C13_Witness ==
    \E r \in rows :
        /\ r.status = "inactive" /\ crossingBuys[r.tokenAddress] = 1
        /\ \A s \in Sweeps : spc[s] = "idle"

\* C14: while the row of an address is inactive, no poll stores a price for
\* it, no poll dispatches a buy for it and no designation dispatches a sell
\* for it.
C14_InactiveNotActedOn ==
    [][\A a \in Addr :
         (HasRow(rows, a) /\ StatusOf(rows, a) = "inactive")
           => /\ \A s \in Sweeps :
                   (spc[s] = "price" /\ stoken[s].tokenAddress = a)
                     => (rows' = rows /\ spc'[s] # "buy")
              /\ ~(cpc' = "sell" /\ ctoken' = a /\ <<cpc, ctoken>> # <<cpc', ctoken'>>)]_vars

\* C15: a designation dispatches sells only for tokens other than the
\* designated one; a token it marks inactive has been sold, that is, its
\* sell swap gave a transaction (the status of a token whose sell gave no
\* transaction or threw is left as it is); and when the designated token has
\* no row and its price is obtained, it is enrolled as active and its buy is
\* dispatched.
C15_DesignationSellsOthers ==
    [][/\ (cpc' = "sell") => (ctoken' # ctarget')
       /\ \A res \in SwapResults \ {"tx"} :
            (CorrectTokenSellReturns(res) /\ HasRow(rows, ctoken))
              => StatusOf(rows', ctoken) = StatusOf(rows, ctoken)
       /\ \A resp \in Prices, meta \in MetadataAnswers :
            CorrectTokenPriceReturns(resp, meta)
              => /\ cpc' = "buy"
                 /\ HasRow(rows', ctarget) /\ StatusOf(rows', ctarget) = "active"]_vars

\* C16: after a sell of a designation has ended, whatever its result (a
\* transaction, none, or an error), the loop goes on to another token of its
\* list that is not the designated one, while there is one; after the last
\* sell the designated token is looked up and, having no row, its price is
\* fetched for the enrollment and the buy.
C16_SellFailureDoesNotStop ==
    [][\A res \in SwapResults :
         CorrectTokenSellReturns(res)
           => LET others == crest \ {ctarget}
              IN  IF others # {}
                  THEN /\ cpc' = "sell" /\ ctoken' \in others
                       /\ crest' = others \ {ctoken'}
                  ELSE cpc' = IF HasRow(rows', ctarget) THEN "idle" ELSE "price"]_vars

\* A designation whose first sell failed (the token is still active) and
\* whose second sell went through has enrolled the designated token and
\* dispatched its buy.
C16_Witness ==
    /\ cpc = "buy" /\ HasRow(rows, ctarget)
    /\ \E r1, r2 \in rows :
         /\ r1.tokenAddress # ctarget /\ r2.tokenAddress # ctarget
         /\ r1.status = "active" /\ r2.status = "inactive"

\* C17: a poll buy that ends without a transaction leaves the status of the
\* token as it is, and while the last poll buy of an active token is a
\* failed one, a poll that observes a price above the threshold over the
\* reference price dispatches a buy.
C17_FailedBuyRetried ==
    [][\A s \in Sweeps :
         /\ \A res \in SwapResults \ {"tx"} :
              CheckTokenBuyReturns(s, res) => rows' = rows
         /\ \A resp \in Prices :
              LET a == stoken[s].tokenAddress
              IN  ( /\ CheckTokenPriceReturns(s, resp)
                    /\ buyFailed[a]
                    /\ HasRow(rows, a) /\ StatusOf(rows, a) = "active"
                    /\ ThresholdMet(resp, refPrice[a]) )
                    => spc'[s] = "buy"]_vars

\* C18: a signal that arrives while the counter is at the cap is skipped:
\* the counter stays as it is and the callback has ended, so nothing of it is
\* pending and no swap is dispatched for it later.
C18_RejectedAtCap ==
    [][\A t \in Signals :
         /\ \A a \in Addr \cup {""} :
              (activeTransactions >= MAX_CONCURRENT /\ onTokenReceived(t, a))
                => /\ activeTransactions' = activeTransactions
                   /\ tpc'[t] = "idle" /\ tlog'[t] = "skipped"
         /\ (tlog'[t] = "skipped") => (tpc'[t] = "idle")]_vars

\* A signal has been skipped while the counter is at the cap.
C18_Witness ==
    /\ activeTransactions = MAX_CONCURRENT
    /\ \E t \in Signals : tlog[t] = "skipped" /\ tpc[t] = "idle"

\* C19: the counter is the number of accepted attempts that have not ended
\* yet: each one is counted once from its admission, before its swap is
\* dispatched, until its finally block has run, however it ends.
C19_CounterCountsAttempts ==
    activeTransactions = Cardinality({t \in Signals : tpc[t] # "idle"})

\* With simulation_mode set an accepted attempt has returned early and is
\* still counted, its finally block not having run yet; another attempt has
\* ended and is counted no more.
C19_Witness ==
    /\ simulation_mode /\ activeTransactions = 1
    /\ \E t1, t2 \in Signals :
         /\ tpc[t1] = "finally"
         /\ tpc[t2] = "idle" /\ tlog[t2] = "accepted"

\* C20: once the process has exited on SIGINT, no socket is left connecting
\* or open and none has its listeners attached.
C20_ShutdownClosesLive ==
    exited => \A i \in 1..Len(socks) :
                 ~socks[i].listeners /\ socks[i].state \notin {"connecting", "open"}

\* C21: for one address at most one discovery pipeline is in progress: no
\* two discovery calls are past the existence check with the same address.
C21_OnePipelinePerAddress ==
    \A d1, d2 \in Discoveries :
        (d1 # d2 /\ dpc[d1] # "idle" /\ dpc[d2] # "idle") => daddr[d1] # daddr[d2]

\* C22: a sweep leaves the token it is checking only for one of the tokens
\* it has still to check, whatever failed for that token (no price, a
\* throwing store update, a throwing buy), and ends only when none is left;
\* it drops no token on the way; and an idle sweep can always start again.
C22_SweepGoesOn ==
    /\ [][\A s \in Sweeps :
            spc[s] # "idle" =>
              IF spc'[s] # "idle" /\ stoken'[s] = stoken[s]
              THEN srest'[s] = srest[s]
              ELSE IF srest[s] = {}
              THEN spc'[s] = "idle"
              ELSE /\ spc'[s] = "price"
                   /\ stoken'[s] \in srest[s]
                   /\ srest'[s] = srest[s] \ {stoken'[s]}]_vars
    /\ [](\A s \in Sweeps : spc[s] = "idle" => ENABLED SweepStart(s))

\* A sweep is at the price lookup of a token after an operation of a token
\* it checked before failed.
C22_Witness ==
    \E s \in Sweeps : sfailed[s] /\ spc[s] = "price"

\* C23: no promise started while a signal message is handled is rejected
\* without a handler.
C23_NoUnhandledRejection == ~unhandled

\* C24: a cleanup deletes a row exactly when the row is inactive and was
\* last checked more than the retention horizon ago; it adds and changes no
\* row.
C24_CleanupDeletesExactly ==
    [][Cleanup =>
         /\ rows' \subseteq rows
         /\ \A r \in rows :
              (r \notin rows') <=>
                (r.status = "inactive" /\ now - r.lastCheck > TOKEN_MAX_AGE_HOURS * MS_PER_HOUR)]_vars

\* After a cleanup that deleted a row: no inactive row past the horizon is
\* left, while an active row past the horizon and an inactive row checked
\* exactly the horizon ago are still on record.
C24_Witness ==
    /\ Cardinality(rows) < Cardinality(Addr)
    /\ \A r \in rows : ~(r.status = "inactive" /\ now - r.lastCheck > HorizonMs)
    /\ \E r \in rows : r.status = "active" /\ now - r.lastCheck > HorizonMs
    /\ \E r \in rows : r.status = "inactive" /\ now - r.lastCheck = HorizonMs

\* C25: a trade that took a slot of the in-flight counter eventually gives
\* it back, and a sweep that is checking a token eventually is done with it.
C25_HungCallReleased ==
    /\ \A t \in 1..MAX_CONCURRENT : (tpc[t] # "idle") ~> (tpc[t] = "idle")
    /\ \A s \in {1} : (spc[s] = "price") ~> (spc[s] # "price" /\ spc[s] # "hung")

\* C26: when the price lookup of a poll returns, a buy is dispatched exactly
\* when a price was obtained and it is more than three times the stored
\* price (an increase of more than 200 percent); otherwise the dev-sold
\* check follows at once.
C26_BuyIffAboveThreshold ==
    [][\A s \in Sweeps, resp \in ThresholdResponses :
         CheckTokenPriceReturns(s, resp) =>
           LET stored == PriceOf(rows, stoken[s].tokenAddress)
           IN  /\ (spc'[s] = "buy") <=> (resp > 0 /\ resp > 3 * stored)
               /\ (spc'[s] = "dev") <=> ~(resp > 0 /\ resp > 3 * stored)]_vars

\* A poll has stored a price of exactly three times the price it read and
\* went on to the dev-sold check.
C26_Witness ==
    \E s \in Sweeps :
        /\ spc[s] = "dev"
        /\ PriceOf(rows, stoken[s].tokenAddress) = 3 * stoken[s].price

\* A frame the listener has nothing to do with: not parseable, a
\* subscription acknowledgment, an error envelope, or without a logs array
\* or without a signature.
C27_Malformed(m) ==
    \/ ~m.parses
    \/ m.hasResult /\ ~m.hasError
    \/ m.hasError
    \/ m.logs # "array"
    \/ m.signature = "none"

\* C27: handling such a frame leaves the sockets and the reconnect timers
\* as they are, starts no detail lookup and no discovery call and writes no
\* row; the connection is still open with its listeners attached, so later
\* frames are handled.
C27_MalformedSkipped ==
    [][\A i \in 1..Len(socks), d \in Discoveries, m \in StreamMessages :
         (SocketMessage(i, d, m) /\ C27_Malformed(m)) =>
           /\ socks' = socks /\ timers' = timers /\ exited' = exited
           /\ dpc' = dpc /\ daddr' = daddr /\ rows' = rows
           /\ socks'[i].state = "open" /\ socks'[i].listeners]_vars

\* An error envelope was logged on a connection that is still open, with
\* its listeners attached and no reconnect pending.
C27_Witness ==
    /\ dlog[1] = "rpcError" /\ dpc[1] = "idle"
    /\ socks[1].state = "open" /\ socks[1].listeners /\ timers = 0

\* C28: a frame starts a detail lookup only when its logs are an array with
\* the pool-initialization marker and its signature is a string, and hands
\* nothing over itself; a discovery call starts only when a detail lookup
\* returns, with the mint of the details it returned; a lookup that throws
\* or returns nothing starts no call.
C28_HandedOnlyAfterLookup ==
    [][/\ \A i \in 1..Len(socks), d \in Discoveries, m \in StreamMessages :
            SocketMessage(i, d, m) =>
              /\ dpc'[d] \in {"idle", "details"} /\ daddr' = daddr
              /\ dpc'[d] = "details" =>
                   (m.logs = "array" /\ m.marker /\ m.signature = "string")
       /\ \A d \in Discoveries :
            (dpc[d] # "rug" /\ dpc'[d] = "rug") => dpc[d] = "details"
       /\ \A d \in Discoveries, details \in DetailsResults :
            FetchDetailsReturns(d, details) =>
              IF details \in {"throws", "null"}
              THEN dpc'[d] = "idle" /\ daddr' = daddr /\ rows' = rows
                   /\ dlog'[d] \in {"detailsError", "noDetails"}
              ELSE daddr'[d] = details]_vars

\* The token monitor was handed the mint a detail lookup resolved and is at
\* its rug check.
C28_Witness ==
    \E d \in Discoveries : dpc[d] = "rug" /\ daddr[d] = "B" /\ dlog[d] = "none"

\* C29: a message that is empty, comes from a channel other than the two
\* allowed ones or holds no address starts no designation and no trade
\* callback: the designation, the in-flight counter, the trades and the
\* store stay as they are.
C29_OnlyAllowedWithAddress ==
    [][\A t \in 1..MAX_CONCURRENT, message \in Messages, channelId \in Channels,
          tokenAddress \in SignalAddr, storeOk \in BOOLEAN :
         ( /\ handleNewMessage(t, message, channelId, tokenAddress, storeOk)
           /\ ~( /\ message # ""
                 /\ channelId \in {"1625691880", "1629064884"}
                 /\ tokenAddress # "" ) )
         => /\ UNCHANGED <<cpc, ctarget, csignal, ctoken, crest>>
            /\ UNCHANGED <<activeTransactions, tpc, tlog>>
            /\ UNCHANGED <<rows, unhandled>>]_vars

\* A message of an allowed channel without an address was handled after a
\* message that was dispatched had taken a slot.
C29_Witness ==
    mlog = "noAddress" /\ activeTransactions > 0

\* The first line of text whose trimmed form is one run of exactly 44
\* base58 characters, as the piece of the text it is; Null without one.
C30_FirstWholeLine(text) ==
    LET whole(i) == LET t == Trim(text[i])
                    IN  Len(t) = 1 /\ t[1].cls = "b58" /\ t[1].len = 44
        lines == {i \in 1..Len(text) : whole(i)}
    IN  IF lines = {} THEN Null
        ELSE LET i == CHOOSE l \in lines : \A k \in lines : l <= k
             IN  [line |-> i, start |-> TrimmedAtStart(text[i]), len |-> 44]

\* C30: both extractions return the first line that is an address as a
\* whole, and null when no line is.
C30_LineOriented ==
    epc = "done" => /\ edex = C30_FirstWholeLine(etext)
                    /\ eres = C30_FirstWholeLine(etext)

\* C30 for extractSolanaAddress alone.
C30_DexLineOriented ==
    epc = "done" => edex = C30_FirstWholeLine(etext)

\* C31: isTokenSafe returns false exactly when the token is rugged, or its
\* mintAuthority, freezeAuthority or mutable flag is set while the option
\* that allows it is off.
C31_GatePolicy ==
    gpc = "done" =>
        (gsafe <=> ~(\/ grug.rugged \in {"true", "address"}
                     \/ (grug.mintAuthority \in {"true", "address"}
                           /\ ~gcfg.allow_mint_authority)
                     \/ (grug.freezeAuthority \in {"true", "address"}
                           /\ ~gcfg.allow_freeze_authority)
                     \/ (grug.mutable \in {"true", "address"} /\ ~gcfg.allow_mutable)))

\* isTokenSafe rejected a token for its mutable flag alone.
C31_Witness ==
    /\ gpc = "done" /\ ~gsafe
    /\ grug.rugged = "false" /\ grug.mintAuthority = "null"
    /\ grug.freezeAuthority = "null" /\ grug.mutable = "true"
    /\ ~gcfg.allow_mutable

\* The enrichment fields of a token whose metadata lookup failed.
C32_Defaults == [name |-> "Unknown", totalSupply |-> 0, marketCap |-> 0]

\* C32: an enrollment that has passed the rug check (a discovery) or needs
\* none (a designation) and obtains a price adds the token whatever the
\* metadata lookup gave; when the lookup failed the token handed to addToken
\* has name "Unknown", total supply 0 and market cap 0.
C32_MetadataNeverFailsGate ==
    [][\A resp \in Prices, meta \in MetadataAnswers :
         /\ \A d \in Discoveries :
              DiscoveryPriceReturns(d, resp, meta)
                => /\ HasRow(rows', daddr[d]) /\ dlog'[d] = "added"
                   /\ ~meta.ok => enriched'[daddr[d]] = C32_Defaults
         /\ CorrectTokenPriceReturns(resp, meta)
              => /\ HasRow(rows', ctarget) /\ cpc' = "buy"
                 /\ ~meta.ok => enriched'[ctarget] = C32_Defaults]_vars

\* A discovery has enrolled A with the default enrichment, and a
\* designation has enrolled B with a name and a supply.
C32_Witness ==
    /\ dlog[1] = "added" /\ HasRow(rows, "A") /\ enriched["A"] = C32_Defaults
    /\ HasRow(rows, "B") /\ enriched["B"].name = "Token" /\ enriched["B"].marketCap > 0

\* C33: at most one poll sweep is in progress: no two interval callbacks
\* are between their getActiveTokens and the end of their loop.
C33_OneSweepAtATime ==
    \A s1, s2 \in Sweeps : (spc[s1] # "idle" /\ spc[s2] # "idle") => s1 = s2

\* C34: an enrollment write (of a discovery or of a designation) happens
\* only for an address that has no row at the moment of the write.
C34_EnrollmentNeverOverwrites ==
    [][\A a \in Addr :
         ((\E d \in Discoveries : DiscoveryEnrolls(d, a)) \/ DesignationEnrolls(a))
           => ~HasRow(rows, a)]_vars

\* C35: a sell of a designation makes the row of its token inactive only
\* when the swap gave a transaction; a swap that throws or gives none
\* leaves the token active.
C35_InactiveOnlyWhenSold ==
    [][\A res \in SwapResults :
         (/\ CorrectTokenSellReturns(res)
          /\ HasRow(rows, ctoken) /\ StatusOf(rows, ctoken) = "active"
          /\ StatusOf(rows', ctoken) = "inactive")
           => res = "tx"]_vars

\* C36: the buy of the designation a message started and the buy of the
\* trade the same message started are never both in flight: the message
\* leads to one buy of its address at most.
C36_OneBuyPerSignal ==
    ~(/\ cpc = "buy" /\ csignal \in Signals
      /\ tpc[csignal] = "swap")

\* C37: the counter is the number of trade attempts in progress (admitted,
\* at the initial delay, the swap, the save of the swap details or the
\* finally block, or hung at the swap), and it is 0 when none is.
C37_NoSlotLeaked ==
    /\ activeTransactions =
         Cardinality({t \in Signals : tpc[t] \in {"delay", "swap", "save", "finally", "hung"}})
    /\ (\A t \in Signals : tpc[t] = "idle") => activeTransactions = 0

\* One attempt has ended and given its slot back while another, admitted
\* later or earlier, is at its swap and holds the only slot taken.
C37_Witness ==
    /\ ~simulation_mode /\ activeTransactions = 1
    /\ \E t1, t2 \in Signals :
         /\ tpc[t1] = "swap"
         /\ tpc[t2] = "idle" /\ tlog[t2] = "accepted"

\* C39: at most one ping interval is active and it is the one of the live
\* connection: a socket whose interval is set is open with its listeners
\* attached.
C39_OneHeartbeat ==
    /\ Cardinality({i \in 1..Len(socks) : socks[i].ping}) <= 1
    /\ \A i \in 1..Len(socks) :
         socks[i].ping => (socks[i].state = "open" /\ socks[i].listeners)

\* C38: no store operation runs on a store that initialize has not opened:
\* while the poll interval is set or a stream connection exists the store
\* is open, and the cleanup interval is set before the poll interval is.
C38_InitializedBeforeUse ==
    /\ ~uninitOps
    /\ (pollTimers # {} \/ Len(socks) > 0) => dbInit
    /\ pollTimers # {} => cleanupScheduled

\* C40: at most one poll interval is set, the one monitoringInterval holds,
\* and none when monitoringInterval is null; startMonitoring with an
\* interval set changes nothing, stopMonitoring leaves none set, and
\* startMonitoring without one sets exactly one.
C40_OnePollTimer ==
    /\ [](/\ Cardinality(pollTimers) <= 1
          /\ pollTimers = IF monitoringInterval = 0 THEN {} ELSE {monitoringInterval})
    /\ [][/\ (monitoringInterval # 0 /\ startMonitoring)
               => UNCHANGED <<monitoringInterval, pollTimers, timersMade>>
          /\ stopMonitoring => pollTimers' = {}
          /\ (monitoringInterval = 0 /\ startMonitoring)
               => Cardinality(pollTimers') = 1]_vars

\* Monitoring was started, stopped and started again: the second interval
\* is the one that is set.
C40_Witness ==
    /\ timersMade = 2 /\ monlog = "started"
    /\ monitoringInterval = 2 /\ pollTimers = {2}

====
